---- MODULE Spec2Model ----
(***************************************************************************)
(* A model of the history-selection and replay-aggregation pipeline of the *)
(* Temporal replay action:                                                 *)
(*   fetchHistories and its four sources   (temporal/history-fetcher.ts)   *)
(*   runReplayTests and extractWorkflowId  (temporal/replay-runner.ts)     *)
(* Every await of the source is a pair of steps (the call is started, the  *)
(* call completes), so that what is in flight is part of the state.        *)
(***************************************************************************)
EXTENDS Integers, Sequences, FiniteSets, TLC

\* ------------------------------------------------------------------ bounds

\* the largest number of items a source holds (matched files, listed workflows, IDs)
MaxItems == 3
\* the largest value of selection.maxHistories
MaxCap == 2
\* the largest number of histories handed to runReplayTests
MaxReplays == 2

VARIABLES
    \* ---- fetchHistories(config, client)
    selection,      \* config.selection
    client,         \* "client" or "null"
    globResult,     \* the number of files glob(pattern) matches
    listing,        \* what client.workflow.list(...).intoHistories() yields
    pc,             \* the position of fetchHistories
    query,          \* fetchByQuery's parameter
    limited,        \* limitedFiles / limitedIds
    idx,            \* the position of the for-of loop over limited
    count,          \* fetchByQuery's count
    pulled,         \* the number of items requested from historiesIterator
    histories,      \* the histories array being filled / handed to the replay
    warnings,       \* the core.warning calls, in order
    calls,          \* the filesystem and engine calls, in order
    inflight,       \* the number of awaited calls that have not completed
    result,         \* how fetchHistories ended
    loaded,         \* the files read / IDs fetched so far, with what each gave
    \* ---- runReplayTests(config, histories)
    rpc,            \* the position of runReplayTests
    i,              \* the loop index (1-based)
    workflowId,     \* the identifier extracted for histories[i]
    results,        \* the results array
    determinismViolations,
    otherErrors,
    engineCalls,    \* the Worker.runReplayHistory calls, with what each did
    returned,       \* the ReplayResults returned, or the value raised
    \* ---- run()
    mpc,            \* the position of run
    inputs,         \* what core.getInput answers
    config,         \* the build and output parts of the ActionConfig
    outputs,        \* the core.setOutput calls, in order
    failed,         \* the core.setFailed calls, in order
    exception,      \* the exception run's try block raised, if any
    report          \* the report generateJobSummary built

fetchVars == <<selection, client, globResult, listing, pc, query, limited, idx,
               count, pulled, warnings, calls, result, loaded>>
replayVars == <<rpc, i, workflowId, results, determinismViolations, otherErrors,
                engineCalls, returned>>
runVars == <<mpc, inputs, config, outputs, failed, exception, report>>
vars == <<fetchVars, histories, inflight, replayVars, runVars>>

\* ------------------------------------------------------------ JS values

\* A JavaScript value, as far as the code looks at it: its type and its text.
Undefined == [t |-> "undefined", v |-> "undefined"]
Str(s) == [t |-> "string", v |-> s]
Num(s) == [t |-> "number", v |-> s]
\* an object whose conversion to a primitive fails: JSON.parse('{"toString":1}')
BadObject == [t |-> "badobject", v |-> ""]

\* `${x}` and String(x): the text, or a TypeError for an object that has no
\* callable toString/valueOf yielding a primitive.
ToStringThrows(x) == x.t = "badobject"
JSToString(x) == x.v

\* if (x): ToBoolean
Truthy(x) ==
    CASE x.t = "undefined" -> FALSE
      [] x.t = "string" -> x.v # ""
      [] x.t = "number" -> x.v # "0"
      [] OTHER -> TRUE

\* ------------------------------------------------------- history records

\* A history record, as far as extractWorkflowId looks at it.
\*   kind        "object", "null" or "primitive" (JSON.parse yields all three)
\*   workflowId  the top-level workflowId (Undefined when there is none)
\*   events      what history.events and its first element are
\*   nestedId    events[0].workflowExecutionStartedEventAttributes.workflowId
HistoryOf(id) ==
    [kind |-> "object", workflowId |-> Str(id), events |-> "empty", nestedId |-> Undefined]

\* the shape of a record whose events[0] has a start-event attribute bag
Nested(top, id) ==
    [kind |-> "object", workflowId |-> top, events |-> "firstAttrs", nestedId |-> id]

\* the shape of a record with no usable attribute bag
Plain(kind, events) ==
    [kind |-> kind, workflowId |-> Undefined, events |-> events, nestedId |-> Undefined]

\* the k-th workflow of a source
WfName(k) == "wf-" \o ToString(k)

\* ---------------------------------------------------------- fetchHistories

IdList(n) == [k \in 1..n |-> WfName(k)]

Selections ==
    [historyPath : {"", "histories/*.json"},
     workflowIds : {IdList(n) : n \in 0..MaxItems},
     taskQueue : {"", "my-queue"},
     query : {"", "WorkflowType=W"},
     maxHistories : 1..MaxCap]

\* What the lazy sequence of a listing does: it yields n histories, unless
\* list() itself throws, or the failAt-th request throws (0: none does).
Listings ==
    {l \in [n : 0..MaxItems, listThrows : BOOLEAN, failAt : 0..(MaxItems + 1)] :
        /\ l.failAt <= l.n + 1
        /\ l.listThrows => (l.n = 0 /\ l.failAt = 0)}

NoListing == [n |-> 0, listThrows |-> FALSE, failAt |-> 0]

Pending == [status |-> "pending", error |-> ""]
Returned == [status |-> "returned", error |-> ""]
Thrown(msg) == [status |-> "thrown", error |-> msg]

ClientRequiredMsg == "Temporal client required for server-based history fetching"
NoSelectionMsg == "No valid workflow selection method provided"
\* the wrapping error without the cause
FetchFailedMsgNoCause(cause) == "Failed to fetch workflow histories"

\* throw new Error(`Failed to fetch workflow histories: ${errorMessage}`)
FetchFailedMsg(cause) == "Failed to fetch workflow histories: " \o cause

\* What one pass of a loop body gave: the history pushed, or the failure caught.
Loaded(h) == [ok |-> TRUE, history |-> h]
Failed == [ok |-> FALSE, history |-> Plain("null", "absent")]

\* fs.readFile and JSON.parse of one matched file: either throws, or the text
\* parses to the history of that workflow, or to JSON of some other shape.
FileResults(file) == {Failed, Loaded(HistoryOf(file)), Loaded(Nested(Undefined, BadObject))}

\* getHandle(id).fetchHistory(): throws, or gives the history of that workflow
FetchResults(id) == {Failed, Loaded(HistoryOf(id))}

\* slice(0, k + 1): the cap off by one
SliceOneMore(s, k) == SubSeq(s, 1, IF Len(s) < k + 1 THEN Len(s) ELSE k + 1)

\* Array.prototype.slice(0, k)
Slice(s, k) == SubSeq(s, 1, IF Len(s) < k THEN Len(s) ELSE k)

\* Dispatch with the task queue tried before the explicit IDs
DispatchQueueFirst(sel, cl) ==
    IF sel.historyPath # "" THEN "fetchFromFiles"
    ELSE IF cl = "null" THEN "clientRequired"
    ELSE IF sel.taskQueue # "" THEN "fetchByTaskQueue"
    ELSE IF Len(sel.workflowIds) > 0 THEN "fetchByIds"
    ELSE IF sel.query # "" THEN "fetchByQuery"
    ELSE "noSelection"

\* Dispatch with the client check ahead of the file pattern
DispatchClientFirst(sel, cl) ==
    IF cl = "null" THEN "clientRequired"
    ELSE IF sel.historyPath # "" THEN "fetchFromFiles"
    ELSE IF Len(sel.workflowIds) > 0 THEN "fetchByIds"
    ELSE IF sel.taskQueue # "" THEN "fetchByTaskQueue"
    ELSE IF sel.query # "" THEN "fetchByQuery"
    ELSE "noSelection"

\* The branch fetchHistories takes: the if-chain of lines 56-80.
Dispatch(sel, cl) ==
    IF sel.historyPath # "" THEN "fetchFromFiles"
    ELSE IF cl = "null" THEN "clientRequired"
    ELSE IF Len(sel.workflowIds) > 0 THEN "fetchByIds"
    ELSE IF sel.taskQueue # "" THEN "fetchByTaskQueue"
    ELSE IF sel.query # "" THEN "fetchByQuery"
    ELSE "noSelection"

\* fetchHistories is called
FetchCalled ==
    /\ selection \in Selections
    /\ client \in {"client", "null"}
    /\ globResult = 0
    /\ listing = NoListing
    /\ pc = "fetchHistories"
    /\ query = ""
    /\ limited = <<>>
    /\ idx = 1
    /\ count = 0
    /\ pulled = 0
    /\ histories = <<>>
    /\ warnings = <<>>
    /\ calls = <<>>
    /\ inflight = 0
    /\ result = Pending
    /\ loaded = <<>>

\* fetchHistories, up to the call of the source's function or the throw
FetchHistories ==
    /\ pc = "fetchHistories"
    /\ LET d == Dispatch(selection, client) IN
         /\ pc' = CASE d = "clientRequired" -> "failed"
                    [] d = "noSelection" -> "failed"
                    [] OTHER -> d
         /\ result' = CASE d = "clientRequired" -> Thrown(ClientRequiredMsg)
                        [] d = "noSelection" -> Thrown(NoSelectionMsg)
                        [] OTHER -> result
         /\ query' = IF d = "fetchByQuery" THEN selection.query ELSE query
    /\ UNCHANGED <<selection, client, globResult, listing, limited, idx, count,
                   pulled, warnings, calls, histories, inflight, loaded, replayVars, runVars>>

\* fetchFromFiles: await glob(pattern, ...) is started
FetchFromFiles ==
    /\ pc = "fetchFromFiles"
    /\ calls' = Append(calls, [op |-> "glob", arg |-> selection.historyPath])
    /\ inflight' = inflight + 1
    /\ pc' = "globAwait"
    /\ UNCHANGED <<selection, client, globResult, listing, query, limited, idx, count,
                   pulled, warnings, histories, result, loaded, replayVars, runVars>>

\* glob has answered, and an empty match is an error
GlobDoneThrowOnEmpty ==
    /\ pc = "globAwait"
    /\ \E n \in 0..MaxItems :
         LET files == IdList(n) IN
         /\ globResult' = n
         /\ inflight' = inflight - 1
         /\ IF n = 0
            THEN /\ warnings' = warnings
                 /\ limited' = limited
                 /\ result' = Thrown("No history files found")
                 /\ pc' = "failed"
            ELSE /\ limited' = Slice(files, selection.maxHistories)
                 /\ warnings' = IF n > selection.maxHistories
                                THEN Append(warnings, "LimitFiles") ELSE warnings
                 /\ result' = result
                 /\ pc' = "filesLoop"
    /\ idx' = 1
    /\ UNCHANGED <<selection, client, listing, query, count, pulled, calls, histories,
                   loaded, replayVars, runVars>>

\* glob has answered: the empty case, the slice and its warning
GlobDone ==
    /\ pc = "globAwait"
    /\ \E n \in 0..MaxItems :
         LET files == IdList(n) IN
         /\ globResult' = n
         /\ inflight' = inflight - 1
         /\ IF n = 0
            THEN /\ warnings' = Append(warnings, "NoFilesFound")
                 /\ limited' = limited
                 /\ result' = Returned
                 /\ pc' = "done"
            ELSE /\ limited' = Slice(files, selection.maxHistories)
                 /\ warnings' = IF n > selection.maxHistories
                                THEN Append(warnings, "LimitFiles") ELSE warnings
                 /\ result' = result
                 /\ pc' = "filesLoop"
    /\ idx' = 1
    /\ UNCHANGED <<selection, client, listing, query, count, pulled, calls, histories,
                   loaded, replayVars, runVars>>

\* the read is started and the loop goes on without awaiting it
ReadFileNoAwait ==
    /\ pc = "filesLoop"
    /\ idx <= Len(limited)
    /\ calls' = Append(calls, [op |-> "readFile", arg |-> limited[idx]])
    /\ inflight' = inflight + 1
    /\ idx' = idx + 1
    /\ UNCHANGED <<selection, client, globResult, listing, pc, query, limited, count,
                   pulled, warnings, histories, result, loaded, replayVars, runVars>>

\* for (const file of limitedFiles): await fs.readFile(file) is started
ReadFile ==
    /\ pc = "filesLoop"
    /\ idx <= Len(limited)
    /\ calls' = Append(calls, [op |-> "readFile", arg |-> limited[idx]])
    /\ inflight' = inflight + 1
    /\ pc' = "readAwait"
    /\ UNCHANGED <<selection, client, globResult, listing, query, limited, idx, count,
                   pulled, warnings, histories, result, loaded, replayVars, runVars>>

\* a failed read is rethrown instead of being warned and skipped
ReadFileDoneAbort ==
    /\ pc = "readAwait"
    /\ \E r \in FileResults(limited[idx]) :
         /\ histories' = IF r.ok THEN Append(histories, r.history) ELSE histories
         /\ loaded' = Append(loaded, [item |-> limited[idx], ok |-> r.ok,
                                      history |-> r.history])
         /\ result' = IF r.ok THEN result ELSE Thrown("ENOENT: no such file")
         /\ pc' = IF r.ok THEN "filesLoop" ELSE "failed"
    /\ inflight' = inflight - 1
    /\ idx' = idx + 1
    /\ UNCHANGED <<selection, client, globResult, listing, query, limited, count,
                   pulled, warnings, calls, replayVars, runVars>>

\* the read and JSON.parse succeeded (push) or threw (warning, skip)
ReadFileDone ==
    /\ pc = "readAwait"
    /\ \E r \in FileResults(limited[idx]) :
         /\ histories' = IF r.ok THEN Append(histories, r.history) ELSE histories
         /\ warnings' = IF r.ok THEN warnings ELSE Append(warnings, "FailedToLoad")
         /\ loaded' = Append(loaded, [item |-> limited[idx], ok |-> r.ok,
                                      history |-> r.history])
    /\ inflight' = inflight - 1
    /\ idx' = idx + 1
    /\ pc' = "filesLoop"
    /\ UNCHANGED <<selection, client, globResult, listing, query, limited, count,
                   pulled, calls, result, replayVars, runVars>>

\* return histories
FilesReturn ==
    /\ pc = "filesLoop"
    /\ idx > Len(limited)
    /\ result' = Returned
    /\ pc' = "done"
    /\ UNCHANGED <<selection, client, globResult, listing, query, limited, idx, count,
                   pulled, warnings, calls, histories, inflight, loaded, replayVars, runVars>>

\* fetchByIds, up to the loop: the slice and its warning
FetchByIds ==
    /\ pc = "fetchByIds"
    /\ limited' = Slice(selection.workflowIds, selection.maxHistories)
    /\ warnings' = IF Len(selection.workflowIds) > selection.maxHistories
                   THEN Append(warnings, "LimitIds") ELSE warnings
    /\ idx' = 1
    /\ pc' = "idsLoop"
    /\ UNCHANGED <<selection, client, globResult, listing, query, count, pulled, calls,
                   histories, inflight, result, loaded, replayVars, runVars>>

\* for (const workflowId of limitedIds): getHandle(id).fetchHistory() is started
FetchHistory ==
    /\ pc = "idsLoop"
    /\ idx <= Len(limited)
    /\ calls' = Append(calls, [op |-> "fetchHistory", arg |-> limited[idx]])
    /\ inflight' = inflight + 1
    /\ pc' = "fetchAwait"
    /\ UNCHANGED <<selection, client, globResult, listing, query, limited, idx, count,
                   pulled, warnings, histories, result, loaded, replayVars, runVars>>

\* a failed fetch is rethrown instead of being warned and skipped
FetchHistoryDoneAbort ==
    /\ pc = "fetchAwait"
    /\ \E r \in FetchResults(limited[idx]) :
         /\ histories' = IF r.ok THEN Append(histories, r.history) ELSE histories
         /\ loaded' = Append(loaded, [item |-> limited[idx], ok |-> r.ok,
                                      history |-> r.history])
         /\ result' = IF r.ok THEN result ELSE Thrown("Workflow not found")
         /\ pc' = IF r.ok THEN "idsLoop" ELSE "failed"
    /\ inflight' = inflight - 1
    /\ idx' = idx + 1
    /\ UNCHANGED <<selection, client, globResult, listing, query, limited, count,
                   pulled, warnings, calls, replayVars, runVars>>

\* the fetch succeeded (push) or threw (warning, skip)
FetchHistoryDone ==
    /\ pc = "fetchAwait"
    /\ \E r \in FetchResults(limited[idx]) :
         /\ histories' = IF r.ok THEN Append(histories, r.history) ELSE histories
         /\ warnings' = IF r.ok THEN warnings ELSE Append(warnings, "FailedToFetch")
         /\ loaded' = Append(loaded, [item |-> limited[idx], ok |-> r.ok,
                                      history |-> r.history])
    /\ inflight' = inflight - 1
    /\ idx' = idx + 1
    /\ pc' = "idsLoop"
    /\ UNCHANGED <<selection, client, globResult, listing, query, limited, count,
                   pulled, calls, result, replayVars, runVars>>

\* return histories
IdsReturn ==
    /\ pc = "idsLoop"
    /\ idx > Len(limited)
    /\ result' = Returned
    /\ pc' = "done"
    /\ UNCHANGED <<selection, client, globResult, listing, query, limited, idx, count,
                   pulled, warnings, calls, histories, inflight, loaded, replayVars, runVars>>

\* the task queue's name, with no quotes around it
TaskQueueQueryUnquoted(taskQueue) == "TaskQueue=" \o taskQueue

\* const query = `TaskQueue="${taskQueue}"`
TaskQueueQuery(taskQueue) == "TaskQueue=\"" \o taskQueue \o "\""

\* fetchByTaskQueue: delegates to fetchByQuery
FetchByTaskQueue ==
    /\ pc = "fetchByTaskQueue"
    /\ query' = TaskQueueQuery(selection.taskQueue)
    /\ pc' = "fetchByQuery"
    /\ UNCHANGED <<selection, client, globResult, listing, limited, idx, count, pulled,
                   warnings, calls, histories, inflight, result, loaded, replayVars, runVars>>

\* fetchByQuery: client.workflow.list({ query }) throws, or gives the iterator
FetchByQuery ==
    /\ pc = "fetchByQuery"
    /\ calls' = Append(calls, [op |-> "list", arg |-> query])
    /\ \E l \in Listings :
         /\ listing' = l
         /\ IF l.listThrows
            THEN /\ result' = Thrown(FetchFailedMsg("Invalid query syntax"))
                 /\ pc' = "failed"
            ELSE /\ result' = result
                 /\ pc' = "iterLoop"
    /\ count' = 0
    /\ UNCHANGED <<selection, client, globResult, query, limited, idx, pulled, warnings,
                   histories, inflight, loaded, replayVars, runVars>>

\* for await (const history of historiesIterator): the next item is requested
IterNext ==
    /\ pc = "iterLoop"
    /\ pulled' = pulled + 1
    /\ calls' = Append(calls, [op |-> "next", arg |-> query])
    /\ inflight' = inflight + 1
    /\ pc' = "nextAwait"
    /\ UNCHANGED <<selection, client, globResult, listing, query, limited, idx, count,
                   warnings, histories, result, loaded, replayVars, runVars>>

\* count > maxHistories: the cap check off by one
CapReachedLate(cnt, maxHistories) == cnt > maxHistories

\* true when the loop body stops at the cap instead of taking the item
CapReached(cnt, maxHistories) == cnt >= maxHistories

\* the request threw (catch, rethrow), the iterator is exhausted (return), or
\* it gave an item: the cap check of the loop body, then the push
IterNextDone ==
    /\ pc = "nextAwait"
    /\ inflight' = inflight - 1
    /\ IF listing.failAt = pulled
       THEN /\ result' = Thrown(FetchFailedMsg("iteration failed"))
            /\ pc' = "failed"
            /\ UNCHANGED <<histories, count, warnings>>
       ELSE IF pulled > listing.n
       THEN /\ result' = Returned
            /\ pc' = "done"
            /\ UNCHANGED <<histories, count, warnings>>
       ELSE IF CapReached(count, selection.maxHistories)
       THEN /\ warnings' = Append(warnings, "ReachedMax")
            /\ result' = Returned
            /\ pc' = "done"
            /\ UNCHANGED <<histories, count>>
       ELSE /\ histories' = Append(histories, HistoryOf(WfName(pulled)))
            /\ count' = count + 1
            /\ pc' = "iterLoop"
            /\ UNCHANGED <<result, warnings>>
    /\ UNCHANGED <<selection, client, globResult, listing, query, limited, idx, pulled,
                   calls, loaded, replayVars, runVars>>

NextFetch ==
    \/ FetchHistories
    \/ FetchFromFiles
    \/ GlobDone
    \/ ReadFile
    \/ ReadFileDone
    \/ FilesReturn
    \/ FetchByIds
    \/ FetchHistory
    \/ FetchHistoryDone
    \/ IdsReturn
    \/ FetchByTaskQueue
    \/ FetchByQuery
    \/ IterNext
    \/ IterNextDone

\* ---------------------------------------------------------- runReplayTests

Unknown == Str("unknown")

\* The records runReplayTests is given: well-formed, null, primitive, and
\* partially shaped ones, with string and non-string identifiers.
HistoryShapes ==
    { HistoryOf("wf-1"), HistoryOf("wf-2"),
      Plain("null", "absent"), Plain("primitive", "absent"),
      Plain("object", "absent"), Plain("object", "firstNull"),
      Plain("object", "firstPrimitive"), Plain("object", "firstNoAttrs"),
      Nested(Str("wf-1"), Str("nested-1")),
      Nested(Num("7"), Str("nested-1")), Nested(Undefined, Num("42")),
      Nested(Undefined, Str("")), Nested(Undefined, BadObject) }

\* the attribute bag of the first event looked at before the top-level field
ExtractNestedFirst(history) ==
    IF history.kind # "object" THEN Unknown
    ELSE IF history.events = "firstAttrs" /\ Truthy(history.nestedId) THEN history.nestedId
    ELSE IF history.workflowId.t = "string" THEN history.workflowId
    ELSE Unknown

\* extractWorkflowId: the `in` operator throws a TypeError on null and on a
\* primitive, inside the try, and the catch falls through to 'unknown'.
ExtractWorkflowId(history) ==
    IF history.kind # "object" THEN Unknown
    ELSE IF history.workflowId.t = "string" THEN history.workflowId
    ELSE IF history.events = "firstPrimitive" THEN Unknown
    ELSE IF history.events = "firstAttrs" /\ Truthy(history.nestedId) THEN history.nestedId
    ELSE Unknown

\* What Worker.runReplayHistory does: it resolves, or rejects with a value.
\*   kind     "Error" for an instance of Error, else the typeof of the value
Resolved == [kind |-> "resolved", name |-> "", message |-> "", text |-> "", stack |-> ""]
EngineOutcomes ==
    { Resolved,
      [kind |-> "Error", name |-> "DeterminismViolationError",
       message |-> "Command mismatch at event 5", text |-> "", stack |-> "at replay"],
      [kind |-> "Error", name |-> "Error",
       message |-> "Workflow code not found", text |-> "", stack |-> "at load"],
      [kind |-> "string", name |-> "", message |-> "", text |-> "String error", stack |-> ""],
      [kind |-> "object", name |-> "DeterminismViolationError",
       message |-> "mismatch", text |-> "[object Object]", stack |-> ""] }

\* error instanceof Error
InstanceOfError(error) == error.kind = "Error"

\* error instanceof Error ? error.message : String(error)
ErrorMessage(error) == IF InstanceOfError(error) THEN error.message ELSE error.text

\* error instanceof Error ? error.stack : undefined
ErrorStack(error) == IF InstanceOfError(error) THEN Str(error.stack) ELSE Undefined

\* the name alone, without instanceof
NameIsDeterminismViolation(error) == error.name = "DeterminismViolationError"

\* error instanceof Error && error.name === 'DeterminismViolationError'
IsDeterminismViolation(error) ==
    InstanceOfError(error) /\ error.name = "DeterminismViolationError"

NullError == [type |-> "null", message |-> "", stack |-> Undefined]

\* results.push({ workflowId, success: true, error: null })
SuccessResult(id) == [workflowId |-> id, success |-> TRUE, error |-> NullError]

\* the failure pushed with no error object
FailureResultNoError(id, error) == [workflowId |-> id, success |-> FALSE, error |-> NullError]

\* results.push({ workflowId, success: false, error: { type, message, stack } })
FailureResult(id, error) ==
    [workflowId |-> id, success |-> FALSE,
     error |-> [type |-> IF IsDeterminismViolation(error)
                         THEN "DeterminismViolation" ELSE "ReplayError",
                message |-> ErrorMessage(error),
                stack |-> ErrorStack(error)]]

NotReturned ==
    [status |-> "pending", total |-> 0, successful |-> 0, failed |-> 0,
     determinismViolations |-> 0, results |-> <<>>]

\* both filters keep every result
CountEvery(rs, flag) == Len(rs)

\* results.filter(p).length
CountSuccess(rs, flag) == Cardinality({k \in 1..Len(rs) : rs[k].success = flag})

ReplayIdle ==
    /\ rpc = "idle"
    /\ i = 1
    /\ workflowId = Undefined
    /\ results = <<>>
    /\ determinismViolations = 0
    /\ otherErrors = 0
    /\ engineCalls = <<>>
    /\ returned = NotReturned

\* the inputs of a run that has not started
NoInputs ==
    [tlsCert |-> "", tlsKey |-> "", tlsCertPath |-> "", tlsKeyPath |-> "",
     historyPath |-> "", workflowIds |-> <<>>, taskQueue |-> "", query |-> "",
     workflowsPath |-> "", maxHistories |-> <<>>, skipBuild |-> "",
     failOnReplayError |-> "", createJobSummary |-> ""]

NoConfig == [skipBuild |-> FALSE, failOnReplayError |-> FALSE, createJobSummary |-> FALSE]

NoException == [raised |-> FALSE, message |-> ""]

\* no report built
NoReport ==
    [built |-> FALSE, rate |-> "", failureSection |-> FALSE, rows |-> <<>>,
     allClear |-> FALSE]

\* the selection of a config that names no source (the unit tests' mockConfig)
EmptySelection ==
    [historyPath |-> "", workflowIds |-> <<>>, taskQueue |-> "", query |-> "",
     maxHistories |-> 1]

\* fetchHistories is not running
FetchIdle ==
    /\ selection = EmptySelection
    /\ client = "null"
    /\ globResult = 0
    /\ listing = NoListing
    /\ pc = "idle"
    /\ query = ""
    /\ limited = <<>>
    /\ idx = 1
    /\ count = 0
    /\ pulled = 0
    /\ warnings = <<>>
    /\ calls = <<>>
    /\ result = Pending
    /\ loaded = <<>>

\* run is not running
RunIdle ==
    /\ mpc = "idle"
    /\ inputs = NoInputs
    /\ config = NoConfig
    /\ outputs = <<>>
    /\ failed = <<>>
    /\ exception = NoException
    /\ report = NoReport

\* const history = histories[i]: undefined beyond the end of the array
HistoryAt(hs, k) == IF k \in 1..Len(hs) THEN hs[k] ELSE Plain("undefined", "absent")

\* a loop whose body runs before its test
LoopRunsFirst(k, hs) == k = 1 \/ k <= Len(hs)

\* for (let i = 0; i < histories.length; i++), with i counted from 1
LoopContinues(k, hs) == k <= Len(hs)

\* runReplayTests is called
ReplayCalled ==
    /\ histories \in UNION {[1..n -> HistoryShapes] : n \in 0..MaxReplays}
    /\ inflight = 0
    /\ rpc = "loop"
    /\ i = 1
    /\ workflowId = Undefined
    /\ results = <<>>
    /\ determinismViolations = 0
    /\ otherErrors = 0
    /\ engineCalls = <<>>
    /\ returned = NotReturned

\* One iteration, up to the await: the identifier, the progress line (whose
\* template literal converts the identifier to text, outside the try), and the
\* start of Worker.runReplayHistory.
ReplayStart ==
    /\ rpc = "loop"
    /\ LoopContinues(i, histories)
    /\ LET history == HistoryAt(histories, i)
           id == ExtractWorkflowId(history) IN
         /\ workflowId' = id
         /\ IF ToStringThrows(id)
            THEN /\ returned' = [NotReturned EXCEPT !.status = "raised"]
                 /\ rpc' = "raised"
                 /\ UNCHANGED <<engineCalls, inflight>>
            ELSE /\ engineCalls' = Append(engineCalls,
                        [replayName |-> id, history |-> history,
                         outcome |-> "pending", name |-> ""])
                 /\ inflight' = inflight + 1
                 /\ rpc' = "replayAwait"
                 /\ UNCHANGED returned
    /\ UNCHANGED <<fetchVars, runVars, histories, i, results, determinismViolations, otherErrors>>

\* The await settles: the push of the try, or the catch with its
\* classification, its counters and its push.
\* the await settles, with every failure counted as a determinism violation
ReplayDoneCountsEveryFailure ==
    /\ rpc = "replayAwait"
    /\ \E error \in EngineOutcomes :
         /\ engineCalls' = [engineCalls EXCEPT ![Len(engineCalls)].outcome = error.kind,
                                               ![Len(engineCalls)].name = error.name]
         /\ IF error = Resolved
            THEN /\ results' = Append(results, SuccessResult(workflowId))
                 /\ UNCHANGED <<determinismViolations, otherErrors>>
            ELSE /\ determinismViolations' = determinismViolations + 1
                 /\ otherErrors' =
                        IF IsDeterminismViolation(error) THEN otherErrors ELSE otherErrors + 1
                 /\ results' = Append(results, FailureResult(workflowId, error))
    /\ inflight' = inflight - 1
    /\ i' = i + 1
    /\ rpc' = "loop"
    /\ UNCHANGED <<fetchVars, runVars, histories, workflowId, returned>>

ReplayDone ==
    /\ rpc = "replayAwait"
    /\ \E error \in EngineOutcomes :
         /\ engineCalls' = [engineCalls EXCEPT ![Len(engineCalls)].outcome = error.kind,
                                               ![Len(engineCalls)].name = error.name]
         /\ IF error = Resolved
            THEN /\ results' = Append(results, SuccessResult(workflowId))
                 /\ UNCHANGED <<determinismViolations, otherErrors>>
            ELSE /\ determinismViolations' =
                        IF IsDeterminismViolation(error)
                        THEN determinismViolations + 1 ELSE determinismViolations
                 /\ otherErrors' =
                        IF IsDeterminismViolation(error) THEN otherErrors ELSE otherErrors + 1
                 /\ results' = Append(results, FailureResult(workflowId, error))
    /\ inflight' = inflight - 1
    /\ i' = i + 1
    /\ rpc' = "loop"
    /\ UNCHANGED <<fetchVars, runVars, histories, workflowId, returned>>

\* After the loop: the two filters and the returned object.
ReplayReturn ==
    /\ rpc = "loop"
    /\ ~LoopContinues(i, histories)
    /\ returned' = [status |-> "returned",
                    total |-> Len(results),
                    successful |-> CountSuccess(results, TRUE),
                    failed |-> CountSuccess(results, FALSE),
                    determinismViolations |-> determinismViolations,
                    results |-> results]
    /\ rpc' = "done"
    /\ UNCHANGED <<fetchVars, runVars, histories, inflight, i, workflowId, results,
                   determinismViolations, otherErrors, engineCalls>>

NextReplay ==
    \/ ReplayStart
    \/ ReplayDone
    \/ ReplayReturn

\* ------------------------------------------------------------- parseInputs

\* Text whose characters the code looks at (split, trim, parseInt) is a
\* sequence of one-character strings; Text gives it back as a string.
RECURSIVE Text(_)
Text(cs) == IF cs = <<>> THEN "" ELSE cs[1] \o Text(Tail(cs))

IsSpace(c) == c = " "

\* String.prototype.trim
RECURSIVE TrimStart(_)
TrimStart(cs) ==
    IF cs # <<>> /\ IsSpace(cs[1]) THEN TrimStart(Tail(cs)) ELSE cs

RECURSIVE TrimEnd(_)
TrimEnd(cs) ==
    IF cs # <<>> /\ IsSpace(cs[Len(cs)]) THEN TrimEnd(SubSeq(cs, 1, Len(cs) - 1)) ELSE cs

Trim(cs) == TrimEnd(TrimStart(cs))

\* String.prototype.split(','): the pieces between the commas, one piece more
\* than there are commas
RECURSIVE Split(_)
Split(cs) ==
    IF \A k \in 1..Len(cs) : cs[k] # "," THEN <<cs>>
    ELSE LET k == CHOOSE j \in 1..Len(cs) :
                      cs[j] = "," /\ \A m \in 1..(j - 1) : cs[m] # ","
         IN <<SubSeq(cs, 1, k - 1)>> \o Split(SubSeq(cs, k + 1, Len(cs)))

\* workflowIds ? workflowIds.split(',').map((id) => id.trim()) : []
ParseWorkflowIds(cs) ==
    IF cs = <<>> THEN <<>>
    ELSE LET pieces == Split(cs) IN [k \in 1..Len(pieces) |-> Text(Trim(pieces[k]))]

DigitValue(c) ==
    CASE c = "0" -> 0 [] c = "1" -> 1 [] c = "2" -> 2 [] c = "3" -> 3 [] c = "4" -> 4
      [] c = "5" -> 5 [] c = "6" -> 6 [] c = "7" -> 7 [] c = "8" -> 8 [] c = "9" -> 9
      [] OTHER -> -1

\* the value of the longest prefix of digits, and how many digits it has
RECURSIVE Digits(_, _, _)
Digits(cs, acc, n) ==
    IF cs # <<>> /\ DigitValue(cs[1]) >= 0
    THEN Digits(Tail(cs), acc * 10 + DigitValue(cs[1]), n + 1)
    ELSE [value |-> acc, digits |-> n]

\* parseInt(text): leading white space, an optional sign, then digits up to
\* the first character that is not one; NaN when there is no digit
ParseInt(cs) ==
    LET t == TrimStart(cs)
        signed == t # <<>> /\ t[1] \in {"-", "+"}
        d == Digits(IF signed THEN Tail(t) ELSE t, 0, 0)
    IN IF d.digits = 0 THEN [nan |-> TRUE, n |-> 0]
       ELSE [nan |-> FALSE, n |-> IF signed /\ t[1] = "-" THEN 0 - d.value ELSE d.value]

DefaultMaxHistories == 100

\* parseInt(maxHistoriesInput) with no default: NaN counts as 0
MaxHistoriesOfNoDefault(cs) ==
    LET p == ParseInt(cs) IN IF p.nan THEN 0 ELSE p.n

\* parseInt(maxHistoriesInput) || 100: NaN and 0 are falsy
MaxHistoriesOf(cs) ==
    LET p == ParseInt(cs) IN IF p.nan \/ p.n = 0 THEN DefaultMaxHistories ELSE p.n

\* [historyPath, workflowIds, taskQueue, query].filter(Boolean).length
SelectionMethods(in) ==
    Cardinality({f \in {"historyPath", "workflowIds", "taskQueue", "query"} :
        \/ f = "historyPath" /\ in.historyPath # ""
        \/ f = "workflowIds" /\ in.workflowIds # <<>>
        \/ f = "taskQueue" /\ in.taskQueue # ""
        \/ f = "query" /\ in.query # ""})

NoMethodMsg ==
    "Must specify at least one workflow selection method: workflow-history-path, workflow-ids, workflow-task-queue, or workflow-query"
RequiredMsg == "Input required and not supplied: workflows-path"
MaxHistoriesMsg == "max-histories must be at least 1"
ReadFailedMsg(file) == "ENOENT: no such file or directory, open '" \o file \o "'"

LargeMaxHistories == 10000

\* the warning given only when all four methods are supplied
MultipleMethodsAll(n) == n > 3

\* if (selectionMethods.length > 1)
MultipleMethods(n) == n > 1

\* the selection part of the config parseInputs returns
SelectionOf(in) ==
    [historyPath |-> in.historyPath,
     workflowIds |-> ParseWorkflowIds(in.workflowIds),
     taskQueue |-> in.taskQueue,
     query |-> in.query,
     maxHistories |-> MaxHistoriesOf(in.maxHistories)]

\* the build and output parts of the config parseInputs returns
ConfigOf(in) ==
    [skipBuild |-> in.skipBuild = "true",
     failOnReplayError |-> in.failOnReplayError # "false",
     createJobSummary |-> in.createJobSummary # "false"]

\* What parseInputs does, in the order of its statements: the two TLS files
\* read when only their paths are given, the count of selection methods (error
\* at none, warning at several), the required workflows-path, the check of
\* max-histories; it gives the error thrown, if any, and the warnings given
\* up to there.
ParseInputsOutcome(in, certReadOk, keyReadOk) ==
    LET n == SelectionMethods(in)
        multiple == IF MultipleMethods(n) THEN <<"MultipleMethods">> ELSE <<>>
        large == IF MaxHistoriesOf(in.maxHistories) > LargeMaxHistories
                 THEN <<"VeryLarge">> ELSE <<>>
    IN IF in.tlsCert = "" /\ in.tlsCertPath # "" /\ ~certReadOk
       THEN [threw |-> TRUE, message |-> ReadFailedMsg(in.tlsCertPath), warnings |-> <<>>]
       ELSE IF in.tlsKey = "" /\ in.tlsKeyPath # "" /\ ~keyReadOk
       THEN [threw |-> TRUE, message |-> ReadFailedMsg(in.tlsKeyPath), warnings |-> <<>>]
       ELSE IF n = 0
       THEN [threw |-> TRUE, message |-> NoMethodMsg, warnings |-> <<>>]
       ELSE IF in.workflowsPath = ""
       THEN [threw |-> TRUE, message |-> RequiredMsg, warnings |-> multiple]
       ELSE IF MaxHistoriesOf(in.maxHistories) < 1
       THEN [threw |-> TRUE, message |-> MaxHistoriesMsg, warnings |-> multiple]
       ELSE [threw |-> FALSE, message |-> "", warnings |-> multiple \o large]

\* --------------------------------------------------------------------- run

Raised(msg) == [raised |-> TRUE, message |-> msg]

\* the text of the workflow-ids input: the IDs joined by ", "
IdsText ==
    <<"w", "f", "-", "1", ",", " ", "w", "f", "-", "2", ",", " ", "w", "f", "-", "3">>

\* The inputs of the runs checked: with and without TLS files, every
\* combination of the four selection inputs, workflows-path given or not, a
\* max-histories that caps and one that is rejected, and the three flags at
\* their default and at the other value.
RunInputs ==
    {in \in [tlsCert : {""}, tlsKey : {""},
             tlsCertPath : {"", "cert.pem"}, tlsKeyPath : {"", "key.pem"},
             historyPath : {"", "histories/*.json"},
             workflowIds : {<<>>, <<",">>, IdsText},
             taskQueue : {"", "my-queue"},
             query : {"", "WorkflowType=W"},
             workflowsPath : {"", "./dist/workflows"},
             maxHistories : {<<"2">>, <<"-", "1">>},
             skipBuild : {"", "true"},
             failOnReplayError : {"", "false"},
             createJobSummary : {"", "false"}] :
        (in.tlsCertPath = "") <=> (in.tlsKeyPath = "")}

\* the texts of the max-histories input: none, integers below, at and above
\* 1, with a sign, white space or leading zeros, around the size warned
\* about, and texts that are not integers
MaxHistoriesTexts ==
    { <<>>, <<"0">>, <<"1">>, <<"2">>, <<"-", "1">>, <<"-", "0">>, <<"-", "2", "5">>,
      <<"+", "2">>, <<" ", "3">>, <<"0", "0", "7">>, <<"0", "0">>,
      <<"1", "0", "0", "0", "0">>, <<"1", "0", "0", "0", "1">>,
      <<"i", "n", "v", "a", "l", "i", "d">>, <<"-">>, <<"x", "1">>,
      <<"2", "x">>, <<"1", ".", "5">>, <<"0", ".", "5">> }

\* The inputs parseInputs is checked with on its own: as those of the runs,
\* with every text of max-histories and the flags left at their default.
ParseOnlyInputs ==
    {in \in [tlsCert : {""}, tlsKey : {""},
             tlsCertPath : {"", "cert.pem"}, tlsKeyPath : {"", "key.pem"},
             historyPath : {"", "histories/*.json"},
             workflowIds : {<<>>, <<",">>, IdsText},
             taskQueue : {"", "my-queue"},
             query : {"", "WorkflowType=W"},
             workflowsPath : {"", "./dist/workflows"},
             maxHistories : MaxHistoriesTexts,
             skipBuild : {""},
             failOnReplayError : {""},
             createJobSummary : {""}] :
        (in.tlsCertPath = "") <=> (in.tlsKeyPath = "")}

\* parseInputs is called
ParseCalled ==
    /\ mpc = "parseInputs"
    /\ inputs \in ParseOnlyInputs
    /\ config = NoConfig
    /\ outputs = <<>>
    /\ failed = <<>>
    /\ exception = NoException
    /\ report = NoReport
    /\ histories = <<>>
    /\ inflight = 0

\* run is called
RunCalled ==
    /\ mpc = "parseInputs"
    /\ inputs \in RunInputs
    /\ config = NoConfig
    /\ outputs = <<>>
    /\ failed = <<>>
    /\ exception = NoException
    /\ report = NoReport
    /\ histories = <<>>
    /\ inflight = 0

\* const config = await parseInputs()
ParseInputs ==
    /\ mpc = "parseInputs"
    /\ \E certReadOk, keyReadOk \in BOOLEAN :
         LET o == ParseInputsOutcome(inputs, certReadOk, keyReadOk) IN
         /\ warnings' = warnings \o o.warnings
         /\ IF o.threw
            THEN /\ exception' = Raised(o.message)
                 /\ mpc' = "catch"
                 /\ UNCHANGED <<selection, config>>
            ELSE /\ selection' = SelectionOf(inputs)
                 /\ config' = ConfigOf(inputs)
                 /\ mpc' = "buildWorkflows"
                 /\ UNCHANGED exception
    /\ UNCHANGED <<client, globResult, listing, pc, query, limited, idx, count, pulled,
                   calls, result, loaded, histories, inflight, replayVars, inputs, report,
                   outputs, failed>>

\* if (!config.build.skipBuild) await buildWorkflows(config): it returns, or
\* throws the error of the command that failed
BuildWorkflows ==
    /\ mpc = "buildWorkflows"
    /\ \E ok \in BOOLEAN :
         IF config.skipBuild \/ ok
         THEN mpc' = "createTemporalConnection" /\ UNCHANGED exception
         ELSE mpc' = "catch" /\ exception' = Raised("Build failed: Command failed")
    /\ UNCHANGED <<fetchVars, histories, inflight, replayVars, inputs, report, config,
                   outputs, failed>>

\* createTemporalConnection: no client when a history path is set; else the
\* client of the connection, or the error of the connect. Then fetchHistories
\* is called.
\* createTemporalConnection, giving no client when the connection fails
CreateTemporalConnectionNullOnFailure ==
    /\ mpc = "createTemporalConnection"
    /\ \E ok \in BOOLEAN :
         /\ client' = IF selection.historyPath = "" /\ ok THEN "client" ELSE "null"
         /\ mpc' = "fetchHistories"
         /\ pc' = "fetchHistories"
         /\ UNCHANGED exception
    /\ UNCHANGED <<selection, globResult, listing, query, limited, idx, count, pulled,
                   warnings, calls, result, loaded, histories, inflight, replayVars,
                   inputs, report, config, outputs, failed>>

CreateTemporalConnection ==
    /\ mpc = "createTemporalConnection"
    /\ \E ok \in BOOLEAN :
         IF selection.historyPath # ""
         THEN /\ client' = "null"
              /\ mpc' = "fetchHistories"
              /\ pc' = "fetchHistories"
              /\ UNCHANGED exception
         ELSE IF ok
         THEN /\ client' = "client"
              /\ mpc' = "fetchHistories"
              /\ pc' = "fetchHistories"
              /\ UNCHANGED exception
         ELSE /\ exception' = Raised("Failed to connect to Temporal: Connection refused")
              /\ mpc' = "catch"
              /\ UNCHANGED <<client, pc>>
    /\ UNCHANGED <<selection, globResult, listing, query, limited, idx, count, pulled,
                   warnings, calls, result, loaded, histories, inflight, replayVars,
                   inputs, report, config, outputs, failed>>

Output(name, value) == [name |-> name, value |-> value]

\* the four core.setOutput calls
FourOutputs(total, successful, fail, violations) ==
    <<Output("total-replays", total), Output("successful-replays", successful),
      Output("failed-replays", fail), Output("determinism-violations", violations)>>

\* the message of the TypeError of a template literal given an object that
\* has no conversion to a primitive
ConversionMsg == "Cannot convert object to primitive value"

ReplayFailedMsg(fail, violations) ==
    "Replay testing failed: " \o ToString(fail) \o " failure(s), "
        \o ToString(violations) \o " determinism violation(s)"

\* an empty batch is an error of the run
FetchSettledEmptyFails ==
    /\ mpc = "fetchHistories"
    /\ pc \in {"done", "failed"}
    /\ IF pc = "failed"
       THEN /\ exception' = Raised(result.error)
            /\ mpc' = "catch"
            /\ UNCHANGED <<warnings, outputs, rpc>>
       ELSE IF Len(histories) = 0
       THEN /\ exception' = Raised("No workflow histories found to replay")
            /\ mpc' = "catch"
            /\ UNCHANGED <<warnings, outputs, rpc>>
       ELSE /\ rpc' = "loop"
            /\ mpc' = "runReplayTests"
            /\ UNCHANGED <<warnings, outputs, exception>>
    /\ UNCHANGED <<selection, client, globResult, listing, pc, query, limited, idx, count,
                   pulled, calls, result, loaded, histories, inflight, i, workflowId,
                   results, determinismViolations, otherErrors, engineCalls, returned,
                   inputs, report, config, failed>>

\* a failed fetch is logged and what had been fetched is replayed
FetchSettledReplaysPartial ==
    /\ mpc = "fetchHistories"
    /\ pc \in {"done", "failed"}
    /\ IF Len(histories) = 0
       THEN /\ warnings' = Append(warnings, "NoHistories")
            /\ outputs' = outputs \o FourOutputs(0, 0, 0, 0)
            /\ mpc' = "end"
            /\ UNCHANGED <<exception, rpc>>
       ELSE /\ rpc' = "loop"
            /\ mpc' = "runReplayTests"
            /\ UNCHANGED <<warnings, outputs, exception>>
    /\ UNCHANGED <<selection, client, globResult, listing, pc, query, limited, idx, count,
                   pulled, calls, result, loaded, histories, inflight, i, workflowId,
                   results, determinismViolations, otherErrors, engineCalls, returned,
                   inputs, report, config, failed>>

\* await fetchHistories settles: the error goes to the catch; an empty list
\* gives the warning, four zero outputs and the return; else runReplayTests
\* is called.
FetchSettled ==
    /\ mpc = "fetchHistories"
    /\ pc \in {"done", "failed"}
    /\ IF pc = "failed"
       THEN /\ exception' = Raised(result.error)
            /\ mpc' = "catch"
            /\ UNCHANGED <<warnings, outputs, rpc>>
       ELSE IF Len(histories) = 0
       THEN /\ warnings' = Append(warnings, "NoHistories")
            /\ outputs' = outputs \o FourOutputs(0, 0, 0, 0)
            /\ mpc' = "end"
            /\ UNCHANGED <<exception, rpc>>
       ELSE /\ rpc' = "loop"
            /\ mpc' = "runReplayTests"
            /\ UNCHANGED <<warnings, outputs, exception>>
    /\ UNCHANGED <<selection, client, globResult, listing, pc, query, limited, idx, count,
                   pulled, calls, result, loaded, histories, inflight, i, workflowId,
                   results, determinismViolations, otherErrors, engineCalls, returned,
                   inputs, report, config, failed>>

\* await runReplayTests settles: what it raised goes to the catch; else the
\* summary, when configured, or the outputs come next.
ReplaySettled ==
    /\ mpc = "runReplayTests"
    /\ rpc \in {"done", "raised"}
    /\ IF rpc = "raised"
       THEN /\ exception' = Raised(ConversionMsg)
            /\ mpc' = "catch"
       ELSE /\ mpc' = IF config.createJobSummary THEN "generateJobSummary" ELSE "setOutputs"
            /\ UNCHANGED exception
    /\ UNCHANGED <<fetchVars, histories, inflight, replayVars, inputs, report, config, outputs,
                   failed>>

\* ------------------------------------------------------ generateJobSummary

\* a rate with one decimal whatever the total
SuccessRateAlwaysDecimal(successful, total) ==
    IF total = 0 THEN "0.0%"
    ELSE LET tenths == (2000 * successful + total) \div (2 * total)
         IN ToString(tenths \div 10) \o "." \o ToString(tenths % 10) \o "%"

\* The success rate: successful / total * 100 rounded to one decimal place
\* (counted in tenths of a percent), as 'N.N%'; the text '0%' when total is 0.
SuccessRate(successful, total) ==
    IF total = 0 THEN "0%"
    ELSE LET tenths == (2000 * successful + total) \div (2 * total)
         IN ToString(tenths \div 10) \o "." \o ToString(tenths % 10) \o "%"

MessageCap == 100

\* the message of a row: capped, with the marker, or the text for none
MessageCell(msg) ==
    IF msg = "" THEN "No error message"
    ELSE IF Len(msg) > MessageCap THEN SubSeq(msg, 1, MessageCap) \o "..."
    ELSE msg

\* the row of a failed outcome: identifier, error kind, message
FailureRow(r) ==
    [id |-> r.workflowId,
     type |-> IF r.error.type = "null" THEN "Unknown" ELSE r.error.type,
     message |-> IF r.error.type = "null" THEN "No error message"
                 ELSE MessageCell(r.error.message)]

\* one row per failed outcome, in the order of the outcomes
RECURSIVE FailureRows(_)
FailureRows(rs) ==
    IF rs = <<>> THEN <<>>
    ELSE IF rs[1].success THEN FailureRows(Tail(rs))
    ELSE <<FailureRow(rs[1])>> \o FailureRows(Tail(rs))

\* a report with the all-clear message in every case
BuildReportAlwaysAllClear(res) ==
    [built |-> TRUE,
     rate |-> SuccessRate(res.successful, res.total),
     failureSection |-> res.failed > 0,
     rows |-> IF res.failed > 0 THEN FailureRows(res.results) ELSE <<>>,
     allClear |-> TRUE]

\* The report: the summary with its rate, the failure-detail section when
\* failed > 0, the all-clear message when failed = 0.
BuildReport(res) ==
    [built |-> TRUE,
     rate |-> SuccessRate(res.successful, res.total),
     failureSection |-> res.failed > 0,
     rows |-> IF res.failed > 0 THEN FailureRows(res.results) ELSE <<>>,
     allClear |-> res.failed = 0]

\* await generateJobSummary(results): the report is built and handed to the
\* sink, whose write returns or fails
GenerateJobSummary ==
    /\ mpc = "generateJobSummary"
    /\ report' = BuildReport(returned)
    /\ \E ok \in BOOLEAN :
         IF ok
         THEN mpc' = "setOutputs" /\ UNCHANGED exception
         ELSE mpc' = "catch" /\ exception' = Raised("Unable to write job summary")
    /\ UNCHANGED <<fetchVars, histories, inflight, replayVars, inputs, config, outputs,
                   failed>>

MaxTotal == 3

\* the outcomes of the results a report is built from: a success, each kind of
\* failure, a failure with an empty message, a failure with no error detail
SummaryOutcomes ==
    {SuccessResult(Str("wf-1"))}
        \cup {FailureResult(Str("wf-2"), e) : e \in EngineOutcomes \ {Resolved}}
        \cup {[workflowId |-> Str("wf-3"), success |-> FALSE,
               error |-> [type |-> "ReplayError", message |-> "", stack |-> Str("stack")]],
              [workflowId |-> Str("wf-4"), success |-> FALSE, error |-> NullError]}

\* the ReplayResults generateJobSummary is given: any counts, any outcomes
SummaryInputs ==
    {r \in [status : {"returned"}, total : 0..MaxTotal, successful : 0..MaxTotal,
            failed : 0..MaxTotal, determinismViolations : 0..MaxTotal,
            results : UNION {[1..n -> SummaryOutcomes] : n \in 0..MaxReplays}] :
        /\ r.successful + r.failed = r.total
        /\ r.determinismViolations <= r.failed}

\* generateJobSummary is called
SummaryCalled ==
    /\ mpc = "generateJobSummary"
    /\ returned \in SummaryInputs
    /\ inputs = NoInputs
    /\ config = NoConfig
    /\ outputs = <<>>
    /\ failed = <<>>
    /\ exception = NoException
    /\ report = NoReport
    /\ histories = <<>>
    /\ inflight = 0
    /\ rpc = "idle"
    /\ i = 1
    /\ workflowId = Undefined
    /\ results = <<>>
    /\ determinismViolations = 0
    /\ otherErrors = 0
    /\ engineCalls = <<>>

\* the run fails on any failed replay, whatever the flag
FailsOnReplayErrorAlways(flag, fail) == fail > 0

\* if (config.output.failOnReplayError && results.failed > 0)
FailsOnReplayError(flag, fail) == flag /\ fail > 0

\* the four core.setOutput calls with the counts of the results
SetOutputs ==
    /\ mpc = "setOutputs"
    /\ outputs' = outputs \o FourOutputs(returned.total, returned.successful,
                                          returned.failed, returned.determinismViolations)
    /\ mpc' = "finalStatus"
    /\ UNCHANGED <<fetchVars, histories, inflight, replayVars, inputs, report, config, failed,
                   exception>>

\* the final status: core.setFailed, or the line that the run succeeded
FinalStatus ==
    /\ mpc = "finalStatus"
    /\ failed' = IF FailsOnReplayError(config.failOnReplayError, returned.failed)
                 THEN Append(failed, ReplayFailedMsg(returned.failed,
                                                     returned.determinismViolations))
                 ELSE failed
    /\ mpc' = "end"
    /\ UNCHANGED <<fetchVars, histories, inflight, replayVars, inputs, report, config, outputs,
                   exception>>

\* the catch lets what was thrown go on to the caller
RunCatchRethrows ==
    /\ mpc = "catch"
    /\ mpc' = "rejected"
    /\ UNCHANGED <<fetchVars, histories, inflight, replayVars, inputs, report, config, outputs,
                   failed, exception>>

\* catch (error): core.setFailed(errorMessage)
RunCatch ==
    /\ mpc = "catch"
    /\ failed' = Append(failed, exception.message)
    /\ mpc' = "end"
    /\ UNCHANGED <<fetchVars, histories, inflight, replayVars, inputs, report, config, outputs,
                   exception>>

NextRun ==
    \/ ParseInputs
    \/ BuildWorkflows
    \/ CreateTemporalConnection
    \/ FetchSettled
    \/ ReplaySettled
    \/ GenerateJobSummary
    \/ SetOutputs
    \/ FinalStatus
    \/ RunCatch
    \/ NextFetch
    \/ NextReplay

\* ---------------------------------------------------------- specifications

\* fetchHistories, called with any selection and with or without a client
InitFetch == FetchCalled /\ ReplayIdle /\ RunIdle
SpecFetch == InitFetch /\ [][NextFetch]_vars

\* runReplayTests, called with any list of records
InitReplay == FetchIdle /\ ReplayCalled /\ RunIdle
SpecReplay == InitReplay /\ [][NextReplay]_vars

\* run, called with any of the inputs, every call of its pipeline answering in
\* any of the ways it can
InitRun == RunCalled /\ FetchIdle /\ ReplayIdle
SpecRun == InitRun /\ [][NextRun]_vars

\* parseInputs, called with any of the inputs
InitParse == ParseCalled /\ FetchIdle /\ ReplayIdle
SpecParse == InitParse /\ [][ParseInputs]_vars

\* generateJobSummary, called with any results
InitSummary == SummaryCalled /\ FetchIdle
SpecSummary == InitSummary /\ [][GenerateJobSummary]_vars

\* either of the two, so that every awaited call of the core is in one specification
Init == InitFetch \/ InitReplay
Next == NextFetch \/ NextReplay
Spec == Init /\ [][Next]_vars

\* ------------------------------------------------------------------ claims

\* the selection descriptors a config populates
PopulatedSet(sel) ==
    {d \in {"files", "ids", "taskQueue", "query"} :
        \/ d = "files" /\ sel.historyPath # ""
        \/ d = "ids" /\ Len(sel.workflowIds) > 0
        \/ d = "taskQueue" /\ sel.taskQueue # ""
        \/ d = "query" /\ sel.query # ""}

\* the populated descriptor highest in the documented order
\* file pattern > explicit IDs > task queue > custom query
Highest(sel) ==
    IF "files" \in PopulatedSet(sel) THEN "files"
    ELSE IF "ids" \in PopulatedSet(sel) THEN "ids"
    ELSE IF "taskQueue" \in PopulatedSet(sel) THEN "taskQueue"
    ELSE "query"

\* the descriptor a filesystem or engine call belongs to
SourceOfCall(c) ==
    CASE c.op \in {"glob", "readFile"} -> "files"
      [] c.op = "fetchHistory" -> "ids"
      [] c.op \in {"list", "next"} /\ c.arg = selection.query -> "query"
      [] OTHER -> "taskQueue"

\* the descriptors whose source has been called so far
Consulted == {SourceOfCall(calls[k]) : k \in 1..Len(calls)}

FetchEnded == pc \in {"done", "failed"}

ServerBacked(sel) == sel.historyPath = "" /\ PopulatedSet(sel) # {}

\* C1, as stated: with more than one descriptor populated, fetchHistories
\* fetches from exactly one source, the highest in priority order.
C1_ExactlyOneSource ==
    (Cardinality(PopulatedSet(selection)) > 1 /\ FetchEnded)
        => Consulted = {Highest(selection)}

\* C1, amended: with more than one descriptor populated, no call is ever made
\* for a descriptor other than the highest in priority order; the highest one is
\* fetched from when it is the file pattern or a client is present, and with no
\* file pattern and no client nothing is fetched at all.
C1_HighestPriorityOnly ==
    Cardinality(PopulatedSet(selection)) > 1 =>
        /\ Consulted \subseteq {Highest(selection)}
        /\ (FetchEnded /\ (selection.historyPath # "" \/ client # "null"))
              => Consulted = {Highest(selection)}
        /\ (FetchEnded /\ selection.historyPath = "" /\ client = "null")
              => Consulted = {}

\* C1's case: task queue and custom query both populated, the task queue fetched
C1_Witness ==
    /\ PopulatedSet(selection) = {"taskQueue", "query"}
    /\ pc = "done"
    /\ Consulted = {"taskQueue"}

\* C9, as stated: with no descriptor populated fetchHistories fails with the
\* no-selection-method error, whatever the client is, an absent one included.
C9_NoSelectionError ==
    (PopulatedSet(selection) = {} /\ FetchEnded) => result = Thrown(NoSelectionMsg)

\* C10: a server-backed descriptor chosen with no client fails with the
\* client-required error and makes no engine call; the file pattern chosen
\* with no client succeeds.
C10_ClientRequired ==
    /\ (ServerBacked(selection) /\ client = "null") =>
          /\ calls = <<>>
          /\ FetchEnded => result = Thrown(ClientRequiredMsg)
    /\ (selection.historyPath # "" /\ client = "null") =>
          /\ result.status # "thrown"
          /\ FetchEnded => result = Returned

\* C10's case: explicit IDs, no client, fetchHistories has thrown
C10_Witness ==
    /\ Highest(selection) = "ids"
    /\ ServerBacked(selection)
    /\ client = "null"
    /\ pc = "failed"

\* the number of warnings with the given tag
CountWarnings(tag) == Cardinality({k \in 1..Len(warnings) : warnings[k] = tag})

Min(a, b) == IF a < b THEN a ELSE b

\* the source fetchHistories read from, once it has returned
ReturnedFrom(d) == result = Returned /\ pc = "done" /\ d \in Consulted

\* the number of items the source held
\* (matched files, IDs given, histories the listing yields)
SourceSize ==
    IF "files" \in Consulted THEN globResult
    ELSE IF "ids" \in Consulted THEN Len(selection.workflowIds)
    ELSE listing.n

\* one of the three warnings that the cap cut the source short
CapWarned == CountWarnings("LimitFiles") + CountWarnings("LimitIds")
                + CountWarnings("ReachedMax") > 0

\* the per-item failures that were warned and skipped
Skipped == CountWarnings("FailedToLoad") + CountWarnings("FailedToFetch")

\* C7, as stated: a source of n > k items returns exactly k histories with a
\* warning, a source of n <= k items returns all n with no cap warning.
C7_ExactlyCapReturned ==
    (result = Returned /\ pc = "done") =>
        IF SourceSize > selection.maxHistories
        THEN Len(histories) = selection.maxHistories /\ CapWarned
        ELSE Len(histories) = SourceSize /\ ~CapWarned

\* C7, amended: a source of n > k items has exactly its first k items
\* attempted, with a cap warning; a source of n <= k items has all n attempted,
\* with no cap warning. The histories returned are the attempted items that
\* loaded: all of them in the query and task-queue paths, and in the file and
\* ID paths all but the ones warned and skipped.
C7_CapOnAttempts ==
    (result = Returned /\ pc = "done") =>
        /\ CapWarned <=> SourceSize > selection.maxHistories
        /\ Len(histories) + Skipped = Min(SourceSize, selection.maxHistories)
        /\ (Consulted \subseteq {"query", "taskQueue"}) => Skipped = 0

\* C7's case: more files matched than the cap, exactly the cap returned, warned
C7_Witness ==
    /\ ReturnedFrom("files")
    /\ globResult > selection.maxHistories
    /\ Len(histories) = selection.maxHistories
    /\ CountWarnings("LimitFiles") = 1

\* the histories the iterator has handed to the loop body: the ones pushed and
\* the one dropped at the cap
Received == count + CountWarnings("ReachedMax")

\* C8, as stated: fetchByQuery never requests more than maxHistories items
\* from the iterator.
C8_AtMostCapRequested == Received <= selection.maxHistories

\* C8, amended: fetchByQuery takes at most maxHistories items; it requests one
\* item more than the cap (which it drops when there is one, with the warning),
\* and after that requests nothing: the remainder is not drained.
C8_OneBeyondCap ==
    /\ Len(histories) <= selection.maxHistories
    /\ Received <= selection.maxHistories + 1
    /\ pulled <= selection.maxHistories + 1
    /\ (pc = "done" /\ Consulted # {} /\ Consulted \subseteq {"query", "taskQueue"}
            /\ listing.n > selection.maxHistories)
         => /\ pulled = selection.maxHistories + 1
            /\ Len(histories) = selection.maxHistories
            /\ CountWarnings("ReachedMax") = 1

\* C8's case: the listing holds two items more than the cap; one was dropped
\* and the last was never requested
C8_Witness ==
    /\ ReturnedFrom("query")
    /\ listing.n > selection.maxHistories + 1
    /\ pulled = selection.maxHistories + 1
    /\ Received = selection.maxHistories + 1

\* the number of calls of the given operation started so far
CountCalls(op) == Cardinality({k \in 1..Len(calls) : calls[k].op = op})

\* C6: at most one file read, per-ID fetch or replay is in flight, and while
\* the call for an item is in flight every earlier item has its result (or its
\* skip) recorded.
C6_OneAtATime ==
    /\ inflight <= 1
    /\ pc = "readAwait" =>
          Len(histories) + CountWarnings("FailedToLoad") = CountCalls("readFile") - 1
    /\ pc = "fetchAwait" =>
          Len(histories) + CountWarnings("FailedToFetch") = CountCalls("fetchHistory") - 1
    /\ rpc = "replayAwait" => Len(results) = Len(engineCalls) - 1
    /\ (pc \notin {"globAwait", "readAwait", "fetchAwait", "nextAwait"}
            /\ rpc # "replayAwait") => inflight = 0

\* C6's case: the read of the second file is in flight, the first is recorded
C6_Witness ==
    /\ pc = "readAwait"
    /\ idx = 2
    /\ inflight = 1
    /\ Len(histories) + CountWarnings("FailedToLoad") = 1

\* C2: in what runReplayTests returns, total is the length of the outcome
\* list and the sum of successful and failed, and determinismViolations is at
\* most failed.
C2_AggregateCounts ==
    returned.status = "returned" =>
        /\ returned.total = Len(returned.results)
        /\ returned.total = returned.successful + returned.failed
        /\ returned.determinismViolations <= returned.failed

\* C2's case: one determinism violation and one other failure
C2_Witness ==
    /\ returned.status = "returned"
    /\ returned.failed = 2
    /\ returned.determinismViolations = 1

\* C3, as stated: runReplayTests never raises, whatever the record and
\* whatever the engine throws.
C3_NeverRaises == rpc # "raised"

DVName == "DeterminismViolationError"

\* C4, as stated: a failed replay is a DeterminismViolation exactly when the
\* name the failure reports is 'DeterminismViolationError'.
C4_ByNameOnly ==
    \A k \in 1..Len(results) :
        ~results[k].success =>
            (results[k].error.type = "DeterminismViolation" <=> engineCalls[k].name = DVName)

\* C4, amended: a failed replay is a DeterminismViolation exactly when the
\* failure is an instance of Error whose name is 'DeterminismViolationError';
\* every other failure is a ReplayError.
C4_ErrorInstanceAndName ==
    \A k \in 1..Len(results) :
        ~results[k].success =>
            /\ results[k].error.type \in {"DeterminismViolation", "ReplayError"}
            /\ results[k].error.type = "DeterminismViolation"
                  <=> (engineCalls[k].outcome = "Error" /\ engineCalls[k].name = DVName)

\* C4's case: a violation, and a thrown object that is no Error but carries the name
C4_Witness ==
    /\ Len(results) = 2
    /\ results[1].error.type = "DeterminismViolation"
    /\ engineCalls[2].outcome = "object"
    /\ engineCalls[2].name = DVName
    /\ results[2].error.type = "ReplayError"

\* C5, as stated: the engine is invoked for the input histories in input
\* order, exactly once each, and the k-th outcome is the outcome of the k-th
\* input history, none dropped.
C5_InOrderOncePerHistory ==
    /\ Len(engineCalls) <= Len(histories)
    /\ Len(results) <= Len(engineCalls)
    /\ \A k \in 1..Len(engineCalls) : engineCalls[k].history = histories[k]
    /\ \A k \in 1..Len(results) :
          /\ results[k].workflowId = engineCalls[k].replayName
          /\ results[k].success = (engineCalls[k].outcome = "resolved")
    /\ rpc \in {"done", "raised"} =>
          /\ Len(engineCalls) = Len(histories)
          /\ Len(results) = Len(histories)

\* the histories of the entries of a log that loaded, in the order of the log
RECURSIVE LoadedOf(_)
LoadedOf(log) ==
    IF log = <<>> THEN <<>>
    ELSE LET rest == LoadedOf(SubSeq(log, 1, Len(log) - 1))
             last == log[Len(log)]
         IN IF last.ok THEN Append(rest, last.history) ELSE rest

\* the items of a log, in its order
ItemsOf(log) == [k \in 1..Len(log) |-> log[k].item]

\* the number of entries of a log that failed
FailuresOf(log) == Cardinality({k \in 1..Len(log) : ~log[k].ok})

\* C11: in the file path nothing a read or a parse does makes fetchHistories
\* throw; the files read are the first min(n, maxHistories) matches in match
\* order; the histories returned are the records of those that parsed, in that
\* order; and there is one failed-to-load warning per file that failed.
C11_BadFileSkipped ==
    ("files" \in Consulted) =>
        /\ result.status # "thrown"
        /\ histories = LoadedOf(loaded)
        /\ CountWarnings("FailedToLoad") = FailuresOf(loaded)
        /\ Len(loaded) <= Min(globResult, selection.maxHistories)
        /\ ItemsOf(loaded) = SubSeq(IdList(globResult), 1, Len(loaded))
        /\ FetchEnded => Len(loaded) = Min(globResult, selection.maxHistories)

\* C11's case: a file failed, a later file loaded, and the batch was returned
C11_Witness ==
    /\ ReturnedFrom("files")
    /\ \E j, k \in 1..Len(loaded) : j < k /\ ~loaded[j].ok /\ loaded[k].ok
    /\ Len(histories) = Len(loaded) - 1

\* the histories of the IDs of a list that are in a set, in the list's order
RECURSIVE HistoriesOfIds(_, _)
HistoriesOfIds(ids, keep) ==
    IF ids = <<>> THEN <<>>
    ELSE LET rest == HistoriesOfIds(SubSeq(ids, 1, Len(ids) - 1), keep)
             last == ids[Len(ids)]
         IN IF last \in keep THEN Append(rest, HistoryOf(last)) ELSE rest

\* the IDs whose fetch succeeded
Succeeded == {loaded[k].item : k \in {j \in 1..Len(loaded) : loaded[j].ok}}

\* C12: in the explicit-ID path no fetch failure makes fetchHistories throw;
\* each failure is warned; the IDs fetched are the first maxHistories of the
\* input; and the histories returned are those of the IDs that succeeded, in
\* the input order of the IDs.
C12_BadIdSkipped ==
    ("ids" \in Consulted) =>
        /\ result.status # "thrown"
        /\ CountWarnings("FailedToFetch") = FailuresOf(loaded)
        /\ ItemsOf(loaded) = SubSeq(selection.workflowIds, 1, Len(loaded))
        /\ Len(loaded) <= selection.maxHistories
        /\ histories = HistoriesOfIds(selection.workflowIds, Succeeded)
        /\ FetchEnded =>
              Len(loaded) = Min(Len(selection.workflowIds), selection.maxHistories)

\* C12's case: the first ID failed, the second was fetched, both within the cap
C12_Witness ==
    /\ ReturnedFrom("ids")
    /\ Len(loaded) = 2
    /\ ~loaded[1].ok
    /\ histories = <<HistoryOf(selection.workflowIds[2])>>

\* fetchByQuery has been entered, from the custom query or from the task queue
QueryPath == Consulted # {} /\ Consulted \subseteq {"query", "taskQueue"}

\* C13: in the query and task-queue paths, once the listing call has thrown, or
\* a request to the iterator has thrown (whatever was taken before it),
\* fetchHistories has failed with the fetch error that ends with the message
\* of the cause, and has returned nothing; it fails in no other way.
C13_QueryFailureAborts ==
    QueryPath =>
        /\ listing.listThrows =>
              /\ pc = "failed"
              /\ result = Thrown("Failed to fetch workflow histories: Invalid query syntax")
        /\ (listing.failAt > 0 /\ pulled = listing.failAt /\ pc # "nextAwait") =>
              /\ pc = "failed"
              /\ result = Thrown("Failed to fetch workflow histories: iteration failed")
        /\ pc = "failed" =>
              \/ listing.listThrows
              \/ listing.failAt > 0 /\ pulled = listing.failAt
        /\ result.status = "thrown" <=> pc = "failed"
        /\ result.status = "returned" <=> pc = "done"

\* C13's case: the iterator threw after a history had been taken
C13_Witness ==
    /\ QueryPath
    /\ pc = "failed"
    /\ Len(histories) > 0
    /\ listing.failAt = Len(histories) + 1
    /\ result.error = "Failed to fetch workflow histories: iteration failed"

\* C14: when the file pattern is the descriptor taken and glob has matched no
\* file, fetchHistories has returned the empty list with the no-files warning,
\* has read no file and has not thrown; the warning is given in no other case.
C14_NoMatchIsEmpty ==
    /\ ("files" \in Consulted /\ pc # "globAwait" /\ globResult = 0) =>
          /\ pc = "done"
          /\ result = Returned
          /\ histories = <<>>
          /\ warnings = <<"NoFilesFound">>
          /\ CountCalls("readFile") = 0
    /\ CountWarnings("NoFilesFound") > 0 =>
          ("files" \in Consulted /\ globResult = 0)

\* C14's case: the pattern was taken ahead of a populated query, and matched
\* nothing
C14_Witness ==
    /\ ReturnedFrom("files")
    /\ selection.query # ""
    /\ globResult = 0
    /\ histories = <<>>
    /\ CountWarnings("NoFilesFound") = 1

\* success === true exactly when error === null
SuccessIffNoError(r) == r.success <=> r.error.type = "null"

\* C16: every result runReplayTests has pushed, and every result of the
\* object it returns, has success true exactly when its error is null.
C16_SuccessIffNoError ==
    /\ \A k \in 1..Len(results) : SuccessIffNoError(results[k])
    /\ \A k \in 1..Len(returned.results) : SuccessIffNoError(returned.results[k])

\* C16's case: a returned list holding a success and a failure
C16_Witness ==
    /\ returned.status = "returned"
    /\ \E j, k \in 1..Len(returned.results) :
          /\ returned.results[j].success
          /\ ~returned.results[k].success
          /\ returned.results[k].error.type = "ReplayError"

\* no identifier found by a strategy
NoId == [t |-> "none", v |-> ""]

\* first strategy: the top-level workflowId of a record, when it is a string
TopLevelId(h) ==
    IF h.kind = "object" /\ h.workflowId.t = "string" THEN h.workflowId ELSE NoId

\* second strategy: the workflowId of the start-event attribute bag of the
\* first element of events, when there is such a bag and the value is truthy
StartEventId(h) ==
    IF h.kind = "object" /\ h.events = "firstAttrs" /\ Truthy(h.nestedId)
    THEN h.nestedId ELSE NoId

\* the strategies in the documented order, then the sentinel
IdInOrder(h) ==
    IF TopLevelId(h) # NoId THEN TopLevelId(h)
    ELSE IF StartEventId(h) # NoId THEN StartEventId(h)
    ELSE Unknown

\* C17: for every record, of any shape, the identifier runReplayTests works
\* with is the one the strategies give in the order top-level field, start-event
\* attribute bag of the first event, sentinel 'unknown'; extraction itself has
\* always produced a value when the loop body goes on or raises.
C17_ExtractionOrder ==
    /\ rpc \in {"replayAwait", "raised"} => workflowId = IdInOrder(histories[i])
    /\ \A k \in 1..Len(engineCalls) :
          engineCalls[k].replayName = IdInOrder(engineCalls[k].history)
    /\ \A k \in 1..Len(results) : results[k].workflowId = IdInOrder(histories[k])

\* C17's case: one record with both identifiers (the top-level one taken) and
\* one that is not an object (the sentinel), both replayed
C17_Witness ==
    /\ returned.status = "returned"
    /\ Len(histories) = 2
    /\ histories[1] = Nested(Str("wf-1"), Str("nested-1"))
    /\ histories[2] = Plain("primitive", "absent")
    /\ results[1].workflowId = Str("wf-1")
    /\ results[2].workflowId = Unknown

\* C18: called with the empty list, runReplayTests never calls the engine and
\* never raises, and what it returns is total = 0, successful = 0, failed = 0,
\* determinismViolations = 0 and the empty list of results.
C18_EmptyInput ==
    (histories = <<>> /\ rpc # "idle") =>
        /\ engineCalls = <<>>
        /\ rpc \in {"loop", "done"}
        /\ rpc = "done" =>
              returned = [status |-> "returned", total |-> 0, successful |-> 0,
                          failed |-> 0, determinismViolations |-> 0, results |-> <<>>]

\* C18's case: runReplayTests has returned from a call with the empty list
C18_Witness ==
    /\ histories = <<>>
    /\ rpc = "done"
    /\ returned.status = "returned"
    /\ returned.total = 0

\* the number of selection inputs a run was given
Supplied ==
    (IF inputs.historyPath # "" THEN 1 ELSE 0) + (IF inputs.workflowIds # <<>> THEN 1 ELSE 0)
        + (IF inputs.taskQueue # "" THEN 1 ELSE 0) + (IF inputs.query # "" THEN 1 ELSE 0)

RunEnded == mpc = "end"

\* the run failed on reading a TLS file, before the selection inputs were read
TlsReadFailed ==
    /\ exception.raised
    /\ exception.message \in {"ENOENT: no such file or directory, open 'cert.pem'",
                              "ENOENT: no such file or directory, open 'key.pem'"}

\* C15, as stated: a run given more than one selection input has emitted the
\* multiple-methods warning by its end, and a run given exactly one never
\* emits it.
C15_WarnedWheneverMultiple ==
    /\ (RunEnded /\ Supplied > 1) => CountWarnings("MultipleMethods") >= 1
    /\ Supplied = 1 => CountWarnings("MultipleMethods") = 0

\* C15, amended: once parseInputs is over, the multiple-methods warning has
\* been emitted exactly once when more than one selection input was given and
\* no TLS file read failed first (even when parseInputs then throws on
\* workflows-path or max-histories), and not at all otherwise; nothing later
\* in the run emits it again.
C15_WarnedOncePastTls ==
    /\ mpc = "parseInputs" => CountWarnings("MultipleMethods") = 0
    /\ mpc # "parseInputs" =>
          CountWarnings("MultipleMethods") =
              IF Supplied > 1 /\ ~TlsReadFailed THEN 1 ELSE 0

\* C15's case: a history path and a query were given, the warning was emitted
\* once, and the files were fetched
C15_Witness ==
    /\ RunEnded
    /\ Supplied = 2
    /\ inputs.historyPath # "" /\ inputs.query # ""
    /\ CountWarnings("MultipleMethods") = 1
    /\ Consulted = {"files"}
    /\ Len(outputs) = 4

\* C19: run never rejects; whatever parseInputs, buildWorkflows,
\* createTemporalConnection, fetchHistories, runReplayTests or
\* generateJobSummary throws goes to the catch of run and nowhere else, and
\* the run ends with one core.setFailed call, whose argument is the message of
\* what was thrown.
C19_ExceptionsBecomeFailedStatus ==
    /\ mpc # "rejected"
    /\ exception.raised => mpc \in {"catch", "end"}
    /\ (mpc # "fetchHistories" /\ pc = "failed") =>
          exception = [raised |-> TRUE, message |-> result.error]
    /\ (mpc # "runReplayTests" /\ rpc = "raised") =>
          exception = [raised |-> TRUE,
                       message |-> "Cannot convert object to primitive value"]
    /\ (RunEnded /\ exception.raised) => failed = <<exception.message>>
    /\ ~RunEnded => failed = <<>>

\* C19's case: every stage up to the summary went through, the summary threw,
\* and the run ended failed with that message
C19_Witness ==
    /\ RunEnded
    /\ rpc = "done"
    /\ returned.failed = 0
    /\ outputs = <<>>
    /\ failed = <<"Unable to write job summary">>

\* C20: the replay engine is invoked, and runReplayTests is running or over,
\* only when fetchHistories has returned, with histories; when fetchHistories
\* has thrown, no replay has been or will be started, no output is set, and
\* the run ends failed with the message of the fetch error.
C20_NoReplayAfterFetchFailure ==
    /\ (engineCalls # <<>> \/ rpc # "idle") =>
          /\ pc = "done"
          /\ result = Returned
          /\ Len(histories) > 0
    /\ pc = "failed" =>
          /\ engineCalls = <<>>
          /\ results = <<>>
          /\ returned = NotReturned
          /\ outputs = <<>>
          /\ mpc \in {"fetchHistories", "catch", "end"}
          /\ RunEnded => failed = <<result.error>>

\* C20's case: the iterator threw after a history had been taken; the run
\* ended failed with nothing replayed
C20_Witness ==
    /\ RunEnded
    /\ pc = "failed"
    /\ Len(histories) > 0
    /\ engineCalls = <<>>
    /\ failed = <<"Failed to fetch workflow histories: iteration failed">>

\* the four outputs, all 0
ZeroOutputs ==
    <<[name |-> "total-replays", value |-> 0],
      [name |-> "successful-replays", value |-> 0],
      [name |-> "failed-replays", value |-> 0],
      [name |-> "determinism-violations", value |-> 0]>>

\* C21: when fetchHistories has returned the empty list (every file or ID
\* failed and was skipped, or the source held nothing), the run that has gone
\* past it has ended, with no failed status, the four outputs set to 0, each
\* once, the no-histories warning given, and no replay started.
C21_EmptyBatchIsNotFailure ==
    (pc = "done" /\ histories = <<>> /\ mpc # "fetchHistories") =>
        /\ RunEnded
        /\ failed = <<>>
        /\ ~exception.raised
        /\ outputs = ZeroOutputs
        /\ CountWarnings("NoHistories") = 1
        /\ engineCalls = <<>>
        /\ rpc = "idle"

\* C21's case: two files matched, both failed to load, and the run ended
\* with the zero outputs
C21_Witness ==
    /\ RunEnded
    /\ Len(loaded) = 2
    /\ CountWarnings("FailedToLoad") = 2
    /\ histories = <<>>
    /\ outputs = ZeroOutputs
    /\ failed = <<>>

\* the replays of the run that failed
FailedReplays == {k \in 1..Len(results) : ~results[k].success}

\* C22: a run that ended without an exception has the failed status exactly
\* when the fail-on-replay-error input is not 'false' and at least one replay
\* failed, and then with the message of the counts; when the status is
\* decided after replays, the four outputs are already set to the counts of
\* the results, whichever way the decision goes.
C22_FailedIffFlagAndFailure ==
    /\ (RunEnded /\ ~exception.raised) =>
          /\ failed # <<>> <=>
                (inputs.failOnReplayError # "false" /\ FailedReplays # {})
          /\ failed # <<>> =>
                failed = <<"Replay testing failed: " \o ToString(Cardinality(FailedReplays))
                            \o " failure(s), " \o ToString(determinismViolations)
                            \o " determinism violation(s)">>
          /\ Len(outputs) = 4
    /\ (mpc = "finalStatus" \/ (RunEnded /\ ~exception.raised /\ rpc = "done")) =>
          outputs = <<[name |-> "total-replays", value |-> Len(results)],
                      [name |-> "successful-replays",
                       value |-> Len(results) - Cardinality(FailedReplays)],
                      [name |-> "failed-replays", value |-> Cardinality(FailedReplays)],
                      [name |-> "determinism-violations", value |-> determinismViolations]>>
    /\ mpc = "finalStatus" => failed = <<>>

\* C22's case: a replay failed with the flag off; the outputs count it and
\* the run ended without the failed status
C22_Witness ==
    /\ RunEnded
    /\ ~exception.raised
    /\ inputs.failOnReplayError = "false"
    /\ FailedReplays # {}
    /\ outputs[3] = [name |-> "failed-replays", value |-> Cardinality(FailedReplays)]
    /\ failed = <<>>

\* a number of tenths of a percent written 'N.N%'
OneDecimal(tenths) == ToString(tenths \div 10) \o "." \o ToString(tenths % 10) \o "%"

Abs(n) == IF n < 0 THEN 0 - n ELSE n

\* C23: in every report built, the rate is the text '0%' exactly when total
\* is 0; when total > 0 it is 'N.N%' for the number of tenths of a percent
\* nearest to successful / total * 100, hence '0.0%' when successful is 0.
C23_SuccessRate ==
    report.built =>
        /\ report.rate = "0%" <=> returned.total = 0
        /\ returned.total > 0 =>
              \E tenths \in 0..1000 :
                  /\ report.rate = OneDecimal(tenths)
                  /\ 2 * Abs(tenths * returned.total - 1000 * returned.successful)
                        <= returned.total
        /\ (returned.total > 0 /\ returned.successful = 0) => report.rate = "0.0%"

\* C23's case: two of three succeeded, and the rate is rounded up to 66.7%
C23_Witness ==
    /\ report.built
    /\ returned.total = 3
    /\ returned.successful = 2
    /\ report.rate = "66.7%"

\* the outcomes of the results reported that failed, in their order
FailedOutcomes == SelectSeq(returned.results, LAMBDA r : ~r.success)

\* C24: every report built has exactly one of the failure-detail section and
\* the all-clear message: the section exactly when failed > 0, with one row
\* per failed outcome of the results, in their order and with their
\* identifiers, and the message exactly when failed = 0.
C24_FailureSectionOrAllClear ==
    report.built =>
        /\ report.failureSection <=> returned.failed > 0
        /\ report.allClear <=> returned.failed = 0
        /\ report.failureSection # report.allClear
        /\ report.failureSection =>
              /\ Len(report.rows) = Len(FailedOutcomes)
              /\ \A k \in 1..Len(report.rows) :
                    report.rows[k].id = FailedOutcomes[k].workflowId
        /\ ~report.failureSection => report.rows = <<>>

\* C24's case: a determinism violation, then a failure with no error detail;
\* two rows, in that order, and no all-clear message
C24_Witness ==
    /\ report.built
    /\ returned.failed = 2
    /\ Len(returned.results) = 2
    /\ returned.results[1].error.type = "DeterminismViolation"
    /\ returned.results[2].error.type = "null"
    /\ Len(report.rows) = 2
    /\ report.rows[1].type = "DeterminismViolation"
    /\ report.rows[2].type = "Unknown"
    /\ ~report.allClear

\* parseInputs has returned a config
ParseReturned == mpc = "buildWorkflows"

\* the texts of max-histories that are no number: the missing input and the
\* ones with no digit where a number starts
NotANumber ==
    { <<>>, <<"i", "n", "v", "a", "l", "i", "d">>, <<"-">>, <<"x", "1">> }

BelowOne == { <<"0">>, <<"-", "1">>, <<"-", "0">>, <<"-", "2", "5">>, <<"0", "0">> }

\* parseInputs got as far as the check of max-histories
ReachedMaxHistories ==
    /\ mpc # "parseInputs"
    /\ exception.message \notin
          {ReadFailedMsg("cert.pem"), ReadFailedMsg("key.pem"), NoMethodMsg, RequiredMsg}

\* C28, as stated: whenever the max-histories input is an integer less than 1,
\* 0 included, parseInputs (when it gets as far as max-histories) fails with
\* 'max-histories must be at least 1'.
C28_RejectsBelowOne ==
    (inputs.maxHistories \in BelowOne /\ ReachedMaxHistories) =>
        /\ mpc = "catch"
        /\ exception = [raised |-> TRUE, message |-> "max-histories must be at least 1"]

\* the outcomes of a list that a scan for a predicate on outcomes finds
ScanKind(rs, kind) == Cardinality({k \in 1..Len(rs) : rs[k].error.type = kind})
ScanSuccess(rs, flag) == Cardinality({k \in 1..Len(rs) : rs[k].success = flag})

\* C26: the batch result runReplayTests returns has determinismViolations equal
\* to the number of outcomes in its list whose error kind is
\* DeterminismViolation, successful and failed equal to the numbers of outcomes
\* with success true and false, and total equal to the length of the list; the
\* running counter agrees with the list after every iteration too.
C26_CountersAgreeWithList ==
    /\ rpc \in {"loop", "done"} =>
          determinismViolations = ScanKind(results, "DeterminismViolation")
    /\ returned.status = "returned" =>
          /\ returned.determinismViolations =
                ScanKind(returned.results, "DeterminismViolation")
          /\ returned.successful = ScanSuccess(returned.results, TRUE)
          /\ returned.failed = ScanSuccess(returned.results, FALSE)
          /\ returned.total = Len(returned.results)

\* C26's case: a returned batch of two failures, one of them a determinism
\* violation
C26_Witness ==
    /\ returned.status = "returned"
    /\ Len(returned.results) = 2
    /\ returned.failed = 2
    /\ returned.determinismViolations = 1
    /\ returned.results[1].error.type = "ReplayError"
    /\ returned.results[2].error.type = "DeterminismViolation"

\* C29, as stated: the identifier recorded in every outcome and the replay name
\* passed to the engine are strings, for every shape of record.
C29_IdentifierIsString ==
    /\ \A k \in 1..Len(results) : results[k].workflowId.t = "string"
    /\ \A k \in 1..Len(engineCalls) : engineCalls[k].replayName.t = "string"

\* the listing has been asked for: fetchByQuery is past its first call
Listed == pc \in {"iterLoop", "nextAwait", "done", "failed"}

\* What a run of the listing with the text q shows, from the listing call on:
\* one list call with q and then only requests to its iterator, at most the cap
\* taken, the cap warning exactly when the listing held more than the cap, and
\* a failure only as the fetch error of a listing or iterator that threw.
QueryRun(q) ==
    /\ query = q
    /\ Len(calls) = 1 + pulled
    /\ calls[1] = [op |-> "list", arg |-> q]
    /\ \A k \in 2..Len(calls) : calls[k] = [op |-> "next", arg |-> q]
    /\ Len(histories) <= selection.maxHistories
    /\ pc = "done" =>
          /\ result = Returned
          /\ Len(histories) = Min(listing.n, selection.maxHistories)
          /\ warnings = IF listing.n > selection.maxHistories
                        THEN <<"ReachedMax">> ELSE <<>>
    /\ pc = "failed" =>
          /\ warnings = <<>>
          /\ \/ listing.listThrows
                   /\ result = Thrown("Failed to fetch workflow histories: Invalid query syntax")
             \/ listing.failAt = pulled
                   /\ result = Thrown("Failed to fetch workflow histories: iteration failed")
    /\ pc \in {"iterLoop", "nextAwait"} => (result = Pending /\ warnings = <<>>)

\* C27: a selection by task queue q shows what a selection by the custom query
\* TaskQueue="q" shows, which is what every custom query shows with its own
\* text: the same listing call, the same cap and cap warning, the same failure.
C27_TaskQueueIsQuery ==
    (client = "client" /\ Listed) =>
        /\ Highest(selection) = "taskQueue" =>
              QueryRun("TaskQueue=\"" \o selection.taskQueue \o "\"")
        /\ (Highest(selection) = "query" /\ selection.query # "") =>
              QueryRun(selection.query)

\* C27's case: the task queue is taken although a custom query is set too, the
\* listing was asked with the quoted name and was cut at the cap
C27_Witness ==
    /\ selection.historyPath = ""
    /\ selection.workflowIds = <<>>
    /\ selection.taskQueue = "my-queue"
    /\ selection.query = "WorkflowType=W"
    /\ pc = "done"
    /\ calls[1] = [op |-> "list", arg |-> "TaskQueue=\"my-queue\""]
    /\ listing.n > selection.maxHistories
    /\ warnings = <<"ReachedMax">>

\* fetchHistories has been called by run
FetchReached == mpc \notin {"parseInputs", "buildWorkflows", "createTemporalConnection"}
                  /\ pc # "idle"

\* the two selection errors of fetchHistories
SelectionErrors ==
    {"Temporal client required for server-based history fetching",
     "No valid workflow selection method provided"}

\* C30: in run, fetchHistories is only called with a selection that has a
\* descriptor populated, and with a client unless the file pattern is set; it
\* never throws either of its two selection errors, and run never fails with
\* one.
C30_SelectionErrorsUnreachable ==
    /\ result.error \notin SelectionErrors
    /\ exception.message \notin SelectionErrors
    /\ FetchReached =>
          /\ PopulatedSet(selection) # {}
          /\ client = "null" => selection.historyPath # ""

\* C30's case: the workflow-ids input ',' passed parseInputs as a selection
\* method, a client was made, and fetchHistories took the IDs
C30_Witness ==
    /\ FetchReached
    /\ inputs.workflowIds = <<",">>
    /\ inputs.historyPath = ""
    /\ client = "client"
    /\ Highest(selection) = "ids"
    /\ result = Returned

====
